---- MODULE Spec2Model ----
(***************************************************************************)
(* Model of proxy_rss.py: five proxy-list providers, the Fetcher with its  *)
(* <dc:date> validity rule, the round/attempt failover of main(), and the  *)
(* read-then-write publish to the contents store.                          *)
(*                                                                         *)
(* Text is modelled structurally.  A string that the code splits on ":"    *)
(* is the sequence of its colon-free fields ("a:b" is <<"a","b">>, a       *)
(* string without colon is a one-field sequence, "" is <<"">>).  A string  *)
(* that the code splits on whitespace is the sequence of its words.  A     *)
(* response body is a sequence of tokens and the marker is a token         *)
(* sequence, so that containment is a real substring test.  A JSON scalar  *)
(* is [t |-> "str"|"num"|"missing", v |-> text].                           *)
(***************************************************************************)
EXTENDS Integers, Sequences, FiniteSets, TLC

(* ------------------------------ bounds -------------------------------- *)
\* entries (rows, lines, JSON items, records) one provider hands out in a run
MaxBatch == 2

(* ------------------------- program constants -------------------------- *)
NumSources == 5
AttemptsFreeproxyWorld == 3
AttemptsOther == 2
NumRequests == 10
MinFreeproxyCells == 6

None == "None"
\* None where the value is otherwise a text given as a token sequence
NoneContent == <<"None">>

(* --------------------------- text helpers ----------------------------- *)
\* str.strip(): the texts of the model that carry outer whitespace
Strip(s) ==
    CASE s = " 80" -> "80"
      [] s = " " -> ""
      [] OTHER -> s

\* str.lower() on the texts of the model
Lower(s) ==
    CASE s = "HTTP" -> "http"
      [] s = "HTTPS" -> "https"
      [] s = "SOCKS5" -> "socks5"
      [] OTHER -> s

\* Python truthiness of a string
Truthy(s) == s # ""

\* ":" in line, for a string given as its colon-free fields
HasColon(line) == Len(line) > 1

\* the decimal value of a port text (texts that are not decimal have none)
PortValue(s) ==
    CASE s = "80" -> 80
      [] s = "8080" -> 8080
      [] s = "0" -> 0
      [] s = "70000" -> 70000
      [] OTHER -> -1

Rec(ip, port, type) == [ip |-> ip, port |-> port, type |-> type]

\* result of a provider function: the list it returns, or an exception that
\* leaves the function
Returned(list) == [raised |-> FALSE, proxies |-> list]
Raised == [raised |-> TRUE, proxies |-> <<>>]

SeqsUpTo(S, n) == UNION {[1..k -> S] : k \in 0..n}

(* ---------------- 1) freeproxy.world: scraped table ------------------- *)
\* A table row after find_all("td") and get_text(strip=True): the number of
\* cells, the text of the td.show-ip-div cell (None when the row has none),
\* the texts of cells[0] and cells[1], and the words of cells[5].
FWRow(n, ipdiv, c0, port, type) ==
    [ncells |-> n, ipdiv |-> ipdiv, cell0 |-> c0, port |-> port, type |-> type]

FWRows ==
    {FWRow(5, None, "2.2.2.2", "80", <<"HTTP">>)} \cup
    {FWRow(6, c[1], c[2], p, t) :
        c \in {<<None, "">>, <<None, "2.2.2.2">>, <<"1.1.1.1", "">>},
        p \in {"", "80"},
        t \in {<<>>, <<"HTTP">>, <<"https", "proxy">>}}

\* what requests.get + BeautifulSoup give: a transport/HTTP error, a page
\* without the table, a table without tbody, or the rows of the tbody
FWResponses ==
    {[kind |-> k, rows |-> <<>>] : k \in {"error", "notable", "notbody"}} \cup
    {[kind |-> "rows", rows |-> r] : r \in SeqsUpTo(FWRows, MaxBatch)}

\* lines 38-58: the loop over the rows.  proxy_type.split()[0] raises
\* IndexError when cells[5] holds no word.
RECURSIVE FWParseRows(_, _)
FWParseRows(rows, proxies) ==
    IF rows = <<>> THEN Returned(proxies)
    ELSE LET row == Head(rows) IN
         IF row.ncells < MinFreeproxyCells THEN FWParseRows(Tail(rows), proxies)
         ELSE LET ip == IF row.ipdiv # None THEN row.ipdiv ELSE row.cell0
                  port == row.port
              IN IF row.type = <<>> THEN Raised
                 ELSE LET proxy_type == Lower(Head(row.type)) IN
                      IF Truthy(ip) /\ Truthy(port) /\ Truthy(proxy_type)
                      THEN FWParseRows(Tail(rows),
                                       Append(proxies, Rec(ip, port, proxy_type)))
                      ELSE FWParseRows(Tail(rows), proxies)

get_jp_proxies_from_freeproxy_world(resp) ==
    CASE resp.kind = "error" -> Returned(<<>>)
      [] resp.kind = "notable" -> Returned(<<>>)
      [] resp.kind = "notbody" -> Returned(<<>>)
      [] OTHER -> FWParseRows(resp.rows, <<>>)

(* ---------------- 2) ProxyScrape: one list per protocol --------------- *)
ProtocolTypes == <<"http", "socks4", "socks5">>

PSLines ==
    {<<"">>, <<"garbage">>, <<"1.1.1.1", "80">>, <<"1.1.1.1", " 80">>,
     <<"1.1.1.1", "80", "x">>}

\* one protocol's response: an error, or the lines of resp.text
ListResponses(Entries, room) ==
    {[kind |-> "error", entries |-> <<>>]} \cup
    {[kind |-> "ok", entries |-> e] : e \in SeqsUpTo(Entries, room)}

\* lines 83-92: the loop over the lines; ip, port = line.split(":") raises
\* ValueError unless the line has exactly one colon, which leaves the loop
\* for the except clause of this protocol; what was appended stays.
RECURSIVE PSParseLines(_, _, _)
PSParseLines(lines, proto_type, all_proxies) ==
    IF lines = <<>> THEN all_proxies
    ELSE LET line == Head(lines) IN
         IF line = <<"">> \/ ~HasColon(line)
         THEN PSParseLines(Tail(lines), proto_type, all_proxies)
         ELSE IF Len(line) # 2 THEN all_proxies
         ELSE PSParseLines(Tail(lines), proto_type,
                  Append(all_proxies,
                         Rec(Strip(line[1]), Strip(line[2]), proto_type)))

\* lines 77-94: one iteration of the loop over the protocols
ProxyScrapeProtocol(resp, proto_type, all_proxies) ==
    IF resp.kind = "error" THEN all_proxies
    ELSE PSParseLines(resp.entries, proto_type, all_proxies)

(* ---------------- 3) Proxyscan: JSON array ----------------------------- *)
JMissing == [t |-> "missing", v |-> ""]
JStr(s) == [t |-> "str", v |-> s]
JNum(s) == [t |-> "num", v |-> s]

\* Python truthiness of a JSON scalar (None, "", 0 are false)
JTruthy(x) ==
    CASE x.t = "missing" -> FALSE
      [] x.t = "str" -> x.v # ""
      [] OTHER -> PortValue(x.v) # 0

ScanEntries ==
    {[Ip |-> i, Port |-> p, Type |-> t] :
        i \in {JMissing, JStr("1.1.1.1")},
        p \in {JMissing, JStr("80"), JNum("8080")},
        t \in {JMissing, JStr("HTTPS"), JStr("socks4"), JStr("ftp")}}

\* lines 115-126: entry.get("Type", "") is "" when the field is missing;
\* ip.strip() / port.strip() raise AttributeError on a JSON number, which
\* leaves the loop for the except clause; what was appended stays.
RECURSIVE ScanParse(_, _)
ScanParse(data, proxies_list) ==
    IF data = <<>> THEN proxies_list
    ELSE LET entry == Head(data)
             ip == entry.Ip
             port == entry.Port
             ptype == Lower(entry.Type.v)
         IN IF JTruthy(ip) /\ JTruthy(port) /\ Truthy(ptype)
            THEN IF ip.t # "str" \/ port.t # "str" THEN proxies_list
                 ELSE ScanParse(Tail(data),
                          Append(proxies_list,
                                 Rec(Strip(ip.v), Strip(port.v),
                                     IF ptype = "https" THEN "http" ELSE ptype)))
            ELSE ScanParse(Tail(data), proxies_list)

get_jp_proxies_from_proxyscan(resp) ==
    IF resp.kind = "error" THEN Returned(<<>>)
    ELSE Returned(ScanParse(resp.entries, <<>>))

(* ---------------- 4) PubProxy: three tiers ----------------------------- *)
\* item.get("ipPort", "") as its colon-free fields
PubItems == {<<"">>, <<"nocolon">>, <<"2.2.2.2", "8080">>, <<"2.2.2.2", "80", "x">>}

\* lines 152-160 (and 170-178, 188-196): the loop over data["data"]
RECURSIVE PubParse(_, _, _)
PubParse(items, type, proxies_list) ==
    IF items = <<>> THEN proxies_list
    ELSE LET ip_port == Head(items) IN
         IF ip_port = <<"">> THEN PubParse(Tail(items), type, proxies_list)
         ELSE IF Len(ip_port) # 2 THEN proxies_list
         ELSE PubParse(Tail(items), type,
                  Append(proxies_list,
                         Rec(Strip(ip_port[1]), Strip(ip_port[2]), type)))

PubProxyTier(resp, type, proxies_list) ==
    IF resp.kind = "error" THEN proxies_list
    ELSE PubParse(resp.entries, type, proxies_list)

(* ---------------- 5) GetProxyList: one record per call ----------------- *)
GPLData ==
    {[ip |-> i, port |-> p, protocols |-> ps, protocol |-> pr] :
        i \in {JMissing, JStr("1.1.1.1")},
        p \in {JMissing, JNum("80"), JNum("0"), JStr("0")},
        ps \in {<<>>, <<"https">>, <<"ftp">>, <<"HTTP", "socks5">>},
        pr \in {JMissing, JStr("SOCKS5")}}

\* lines 224-228: the protocols of one response
GPLProtocols(data) ==
    IF data.protocols # <<>> THEN data.protocols
    ELSE LET proto == Lower(data.protocol.v) IN
         IF Truthy(proto) THEN <<proto>> ELSE <<>>

\* one call's response: an error, or the JSON object of one proxy
GPLResponses(room) ==
    {[kind |-> "error"]} \cup
    {[kind |-> "ok", data |-> d] :
        d \in {x \in GPLData : Len(GPLProtocols(x)) <= room}}

\* lines 230-239: the loop over the protocols of one response
RECURSIVE GPLParse(_, _, _)
GPLParse(protocols, data, proxies_list) ==
    IF protocols = <<>> THEN proxies_list
    ELSE LET p0 == Lower(Head(protocols))
             proto == IF p0 = "https" THEN "http" ELSE p0
         IN IF JTruthy(data.ip) /\ JTruthy(data.port)
               /\ proto \in {"http", "socks4", "socks5"}
            THEN GPLParse(Tail(protocols), data,
                     Append(proxies_list,
                            Rec(Strip(data.ip.v), Strip(data.port.v), proto)))
            ELSE GPLParse(Tail(protocols), data, proxies_list)

\* mutant: a failed request empties the list
GetProxyListRequest_ErrorClears(resp, proxies_list) ==
    IF resp.kind = "error" THEN <<>>
    ELSE GPLParse(GPLProtocols(resp.data), resp.data, proxies_list)

\* lines 216-242: one iteration of the loop over the requests
GetProxyListRequest(resp, proxies_list) ==
    IF resp.kind = "error" THEN proxies_list
    ELSE GPLParse(GPLProtocols(resp.data), resp.data, proxies_list)


(* ------------------------------ Fetcher -------------------------------- *)
\* the validation marker "<dc:date>" as two tokens; a body is a token sequence
Marker == <<"<dc:", "date>">>

\* bodies the target URL is answered with: empty, a block page, the marker's
\* tokens in the wrong order, the marker alone, a feed
Bodies ==
    {<<>>, <<"<html>">>, <<"date>", "<dc:">>, Marker,
     <<"<rss>", "<dc:", "date>", "</rss>">>}

\* marker in content
Contains(content, marker) ==
    \E i \in 1..(Len(content) - Len(marker) + 1) :
        SubSeq(content, i, i + Len(marker) - 1) = marker

\* what requests.get(rss_url, proxies=...) gives: an exception (connect,
\* timeout, bad proxy URL) or an HTTP response
TargetResponses ==
    {[kind |-> "exc", status |-> 0, body |-> <<>>]} \cup
    {[kind |-> "http", status |-> 200, body |-> b] : b \in Bodies} \cup
    {[kind |-> "http", status |-> 404, body |-> Marker]}

\* response.raise_for_status()
RaisesForStatus(status) == status >= 400 /\ status < 600

\* mutant: the marker check is left out
fetch_rss_with_proxy_NoMarkerCheck(resp) ==
    IF resp.kind = "exc" THEN NoneContent
    ELSE IF RaisesForStatus(resp.status) THEN NoneContent
    ELSE resp.body

\* lines 266-277: the return value of fetch_rss_with_proxy
fetch_rss_with_proxy(resp) ==
    IF resp.kind = "exc" THEN NoneContent
    ELSE IF RaisesForStatus(resp.status) THEN NoneContent
    ELSE IF ~Contains(resp.body, Marker) THEN NoneContent
    ELSE resp.body

\* the FetchOutcome of the call, by the branch the code takes
FetchOutcome(resp) ==
    IF resp.kind = "exc" \/ RaisesForStatus(resp.status) THEN "NetworkFailure"
    ELSE IF ~Contains(resp.body, Marker) THEN "Invalid"
    ELSE "Success"

\* "if rss_content:" in try_all_proxies_once, try_proxies_multiple_attempts, main
ContentTruthy(c) == c # NoneContent /\ c # <<>>

(* ------------------------------ Publisher ------------------------------ *)
\* base64.b64encode(rss_content.encode()).decode(), and the store's decoding
B64Encode(c) == [b64 |-> c]
B64Decode(x) == x.b64

\* The contents store: rev = None when the path is absent, else the
\* revision id of the stored content.
Absent == [rev |-> None, content |-> NoneContent]

\* the revision id after one more write
NextRev(r) ==
    CASE r = None -> "r1"
      [] r = "r1" -> "r2"
      [] r = "r2" -> "r3"
      [] OTHER -> "r4"

\* GET of the path: 200 with the revision id, 404 when absent
StoreGet(st) ==
    IF st.rev = None THEN [status |-> 404, sha |-> None]
    ELSE [status |-> 200, sha |-> st.rev]

\* PUT of the path: creates when absent and no revision is supplied, updates
\* when the supplied revision is the stored one, rejects otherwise
StorePut(st, data) ==
    IF st.rev = None /\ data.sha = None
    THEN [status |-> 201, store |-> [rev |-> NextRev(st.rev), content |-> B64Decode(data.content)]]
    ELSE IF st.rev # None /\ data.sha = st.rev
    THEN [status |-> 200, store |-> [rev |-> NextRev(st.rev), content |-> B64Decode(data.content)]]
    ELSE IF data.sha = None
    THEN [status |-> 422, store |-> st]
    ELSE [status |-> 409, store |-> st]

\* mutant: the sha of the GET is dropped
ShaFromGet_Forgets(ans) == None

\* lines 333-339: the sha the Publisher keeps from the GET
ShaFromGet(ans) == IF ans.status = 200 THEN ans.sha ELSE None

\* lines 344-350: the body of the PUT
PutData(content, s) == [content |-> B64Encode(content), sha |-> s]

\* lines 336/339 and 353-357: what update_github_rss_feed reports
PublishResult(s, status) ==
    IF status \in {200, 201}
    THEN IF s # None THEN "Updated" ELSE "Created"
    ELSE "Rejected"


(* ---------------------------- the run: main() -------------------------- *)
VARIABLES
    pc,            \* position of main(): "query", "shuffle", "fetch",
                   \* "publish_get", "publish_put", "done", "failed", "crashed"
    src,           \* the source block of main() being executed, 1..NumSources
    stage,         \* requests the current provider function has issued
    proxies_list,  \* the list of the current source (as shuffled last)
    attempt_idx,   \* try_proxies_multiple_attempts: the round (0 outside it)
    pos,           \* try_all_proxies_once: index of the next proxy (0 outside)
    response,      \* the response the last Fetcher call got
    rss_content,   \* return value of the last Fetcher call
    fetches,       \* Fetcher calls made for the current source
    queried,       \* the sources queried so far, in order
    requests,      \* requests the provider function called last has issued
    last,          \* the source main() left last: its batch size and calls
    exhausted,     \* sources left after an empty batch or after all rounds
    nSuccess,      \* times main() declared success
    nPublish,      \* times update_github_rss_feed was invoked
    published,     \* the content update_github_rss_feed was invoked with
    store,         \* the contents store
    get,           \* the GET issued: the store it met, its status
    sha,           \* update_github_rss_feed: sha
    put,           \* the PUT issued: its data, the store it met, its status
    result,        \* what update_github_rss_feed reported
    interfered,    \* another writer wrote between the GET and the PUT
    nPut,          \* PUT requests update_github_rss_feed has issued
    batch,         \* the batch the query of the current source returned
    passed,        \* proxies passed to the Fetcher in the current round
    earlier,       \* records of Watched attempted under sources left so far
    listing,       \* get_jp_proxies_from_proxyscrape: the response of the last
                   \* protocol request and all_proxies before it
    flow,          \* what the controller did after the last Fetcher call, and
                   \* what it does had the call failed the other way
    callsLeft,     \* attempts * batch size, summed over the sources queried,
                   \* less the Fetcher calls made
    exc            \* the exception that left main(), if any

vars == <<pc, src, stage, proxies_list, attempt_idx, pos, response, rss_content,
          fetches, queried, requests, last, exhausted, nSuccess, nPublish, published,
          store, get, sha, put, result, interfered, nPut, batch, passed, earlier,
          listing, flow, callsLeft, exc>>

fetchVars == <<response, rss_content, fetches>>
countVars == <<nSuccess, nPublish, published>>
publishVars == <<store, get, sha, put, result, interfered, nPut>>
roundVars == <<batch, passed>>

NoResponse == [kind |-> "none", status |-> 0, body |-> <<>>]
NoGet == [issued |-> FALSE, met |-> Absent, status |-> 0]
NoPut == [issued |-> FALSE, data |-> PutData(NoneContent, None), met |-> Absent, status |-> 0]
NoLast == [src |-> 0, size |-> 0, calls |-> 0]

\* a list as a multiset: how often each record occurs in it
BagOf(list) ==
    [r \in {list[i] : i \in 1..Len(list)} |->
        Cardinality({i \in 1..Len(list) : list[i] = r})]

NoBatch == [src |-> 0, bag |-> BagOf(<<>>)]

NoFlow == [taken |-> "none", swapped |-> {}]
NoListing == [kind |-> "none", entries |-> <<>>, type |-> None, before |-> <<>>]

\* the record values whose attempts are remembered across sources: the
\* record that several providers can list
Watched == {Rec("1.1.1.1", "80", "http")}

\* main(): the attempts argument of each block (lines 372, 384, 396, 408, 420)
Attempts(i) == IF i = 1 THEN AttemptsFreeproxyWorld ELSE AttemptsOther

Init ==
    /\ pc = "query" /\ src = 1 /\ stage = 0
    /\ proxies_list = <<>> /\ attempt_idx = 0 /\ pos = 0
    /\ response = NoResponse /\ rss_content = NoneContent /\ fetches = 0
    /\ queried = <<>> /\ requests = 0 /\ last = NoLast /\ exhausted = {}
    /\ nSuccess = 0 /\ nPublish = 0 /\ published = NoneContent
    /\ store \in {Absent, [rev |-> "r1", content |-> <<"old">>]}
    /\ get = NoGet /\ sha = None /\ put = NoPut /\ result = None /\ interfered = FALSE
    /\ nPut = 0
    /\ batch = NoBatch /\ passed = <<>> /\ earlier = {}
    /\ callsLeft = 0 /\ flow = NoFlow /\ listing = NoListing
    /\ exc = None

\* an exception leaves main()
Crash(e) ==
    /\ pc' = "crashed" /\ exc' = e
    /\ UNCHANGED <<src, stage, proxies_list, attempt_idx, pos, fetchVars, last,
                   exhausted, countVars, publishVars, roundVars, earlier,
                   listing, flow, callsLeft>>

\* mutant: a block is skipped
NextBlock_Skips(i) ==
    IF i + 1 < NumSources THEN [pc |-> "query", src |-> i + 2]
    ELSE [pc |-> "failed", src |-> i]

\* mutant: the same source is queried again
NextBlock_Retries(i) == [pc |-> "query", src |-> i]

\* main() falls through to the next block, or to the FAILED line after the last
NextBlock(i) ==
    IF i < NumSources THEN [pc |-> "query", src |-> i + 1]
    ELSE [pc |-> "failed", src |-> i]

\* mutant: the list of the block that is left stays in proxies_list
LeaveSource_KeepsList(list, calls) ==
    /\ pc' = NextBlock(src).pc /\ src' = NextBlock(src).src
    /\ stage' = 0 /\ proxies_list' = list /\ attempt_idx' = 0 /\ pos' = 0
    /\ fetches' = 0
    /\ batch' = NoBatch /\ passed' = <<>>
    /\ earlier' = earlier \cup ({list[i] : i \in 1..Len(list)} \cap Watched)
    /\ last' = [src |-> src, size |-> Len(list), calls |-> calls]
    /\ exhausted' = IF calls = Attempts(src) * Len(list)
                    THEN exhausted \cup {src} ELSE exhausted

\* main() leaves the block of source src without a success
LeaveSource(list, calls) ==
    /\ pc' = NextBlock(src).pc /\ src' = NextBlock(src).src
    /\ stage' = 0 /\ proxies_list' = <<>> /\ attempt_idx' = 0 /\ pos' = 0
    /\ fetches' = 0
    /\ batch' = NoBatch /\ passed' = <<>>
    /\ earlier' = IF calls > 0
                  THEN earlier \cup ({list[i] : i \in 1..Len(list)} \cap Watched)
                  ELSE earlier
    /\ last' = [src |-> src, size |-> Len(list), calls |-> calls]
    /\ exhausted' = IF calls = Attempts(src) * Len(list)
                    THEN exhausted \cup {src} ELSE exhausted

\* "if xxx_list:" in main(): a non-empty list goes to
\* try_proxies_multiple_attempts, an empty one to the next block
ListTruthy(list) == list # <<>>

SourceReturns(list) ==
    /\ exc' = exc
    /\ callsLeft' = callsLeft + Attempts(src) * Len(list)
    /\ flow' = NoFlow /\ listing' = NoListing
    /\ UNCHANGED <<response, rss_content, countVars, publishVars>>
    /\ IF ListTruthy(list)
       THEN /\ pc' = "shuffle" /\ proxies_list' = list
            /\ attempt_idx' = 0 /\ pos' = 0 /\ stage' = 0
            /\ batch' = [src |-> src, bag |-> BagOf(list)]
            /\ UNCHANGED <<src, fetches, last, exhausted, passed, earlier>>
       ELSE LeaveSource(list, fetches)

\* the provider function of source i is called
Called(i) == IF stage = 0 THEN Append(queried, i) ELSE queried

QueryFreeproxyWorld ==
    /\ pc = "query" /\ src = 1
    /\ queried' = Called(1) /\ requests' = stage + 1
    /\ \E resp \in FWResponses :
         LET r == get_jp_proxies_from_freeproxy_world(resp) IN
         IF r.raised THEN Crash("IndexError") ELSE SourceReturns(r.proxies)

QueryProxyScrape ==
    /\ pc = "query" /\ src = 2 /\ stage < Len(ProtocolTypes)
    /\ queried' = Called(2) /\ requests' = stage + 1
    /\ \E resp \in ListResponses(PSLines, MaxBatch - Len(proxies_list)) :
         LET all_proxies == ProxyScrapeProtocol(resp, ProtocolTypes[stage + 1],
                                                proxies_list)
         IN IF stage + 1 < Len(ProtocolTypes)
            THEN /\ stage' = stage + 1 /\ proxies_list' = all_proxies
                 /\ UNCHANGED <<pc, src, attempt_idx, pos, fetchVars, last,
                                exhausted, countVars, publishVars, roundVars,
                                earlier, flow, callsLeft, exc>>
                 /\ listing' = [kind |-> resp.kind, entries |-> resp.entries,
                                type |-> ProtocolTypes[stage + 1],
                                before |-> proxies_list]
            ELSE SourceReturns(all_proxies)

QueryProxyscan ==
    /\ pc = "query" /\ src = 3
    /\ queried' = Called(3) /\ requests' = stage + 1
    /\ \E resp \in ListResponses(ScanEntries, MaxBatch) :
         SourceReturns(get_jp_proxies_from_proxyscan(resp).proxies)

QueryPubProxy ==
    /\ pc = "query" /\ src = 4 /\ stage < Len(ProtocolTypes)
    /\ queried' = Called(4) /\ requests' = stage + 1
    /\ \E resp \in ListResponses(PubItems, MaxBatch - Len(proxies_list)) :
         LET list == PubProxyTier(resp, ProtocolTypes[stage + 1], proxies_list)
         IN IF stage + 1 < Len(ProtocolTypes)
            THEN /\ stage' = stage + 1 /\ proxies_list' = list
                 /\ UNCHANGED <<pc, src, attempt_idx, pos, fetchVars, last,
                                exhausted, countVars, publishVars, roundVars,
                                earlier, listing, flow, callsLeft, exc>>
            ELSE SourceReturns(list)

QueryGetProxyList ==
    /\ pc = "query" /\ src = 5 /\ stage < NumRequests
    /\ queried' = Called(5) /\ requests' = stage + 1
    /\ \E resp \in GPLResponses(MaxBatch - Len(proxies_list)) :
         LET list == GetProxyListRequest(resp, proxies_list)
         IN IF stage + 1 < NumRequests
            THEN /\ stage' = stage + 1 /\ proxies_list' = list
                 /\ UNCHANGED <<pc, src, attempt_idx, pos, fetchVars, last,
                                exhausted, countVars, publishVars, roundVars,
                                earlier, listing, flow, callsLeft, exc>>
            ELSE SourceReturns(list)

\* mutant: the list is sampled with replacement
Shufflings_Samples(list) ==
    {[i \in 1..Len(list) |-> list[f[i]]] : f \in [1..Len(list) -> 1..Len(list)]}

\* random.shuffle(proxies_list): any permutation of the list
Shufflings(list) ==
    {[i \in 1..Len(list) |-> list[f[i]]] :
        f \in {g \in [1..Len(list) -> 1..Len(list)] :
                  \A i, j \in 1..Len(list) : i # j => g[i] # g[j]}}

\* lines 297-300: a round starts
Shuffle ==
    /\ pc = "shuffle"
    /\ \E shuffled \in Shufflings(proxies_list) : proxies_list' = shuffled
    /\ pc' = "fetch" /\ pos' = 1 /\ passed' = <<>>
    /\ UNCHANGED <<src, stage, attempt_idx, fetchVars, queried, requests, last,
                   exhausted,
                   countVars, publishVars, batch, earlier, listing,
                   flow, callsLeft, exc>>

\* mutant: the loop does not return at the first success
RoundGoesOn_IgnoresSuccess(c, k, n) == k < n

\* try_all_proxies_once goes on to the next proxy of the list
RoundGoesOn(c, k, n) == ~ContentTruthy(c) /\ k < n

\* mutant: one round too many
AttemptsGoOn_OffByOne(c, a, i) == ~ContentTruthy(c) /\ a + 1 <= Attempts(i)

\* try_proxies_multiple_attempts goes on to the next round
AttemptsGoOn(c, a, i) == ~ContentTruthy(c) /\ a + 1 < Attempts(i)

\* what the controller does after a Fetcher call returned c for the k-th of
\* n proxies in round a of source i (lines 286-289, 300-303, and the
\* "if rss_content:" of main())
AfterCall(c, k, n, a, i) ==
    IF RoundGoesOn(c, k, n) THEN "next_proxy"
    ELSE IF AttemptsGoOn(c, a, i) THEN "next_round"
    ELSE IF ContentTruthy(c) THEN "publish"
    ELSE "next_source"

\* the responses that make the call fail the other way: with a
\* NetworkFailure where resp is Invalid, with Invalid where resp is a
\* NetworkFailure
OtherFailure(resp) ==
    {r \in TargetResponses :
        /\ FetchOutcome(r) # "Success"
        /\ FetchOutcome(resp) # "Success"
        /\ FetchOutcome(r) # FetchOutcome(resp)}

\* lines 285-289, 297-303 and the "if rss_content:" of main(): one Fetcher
\* call on proxies_list[pos] and the control flow that follows it
Fetch ==
    /\ pc = "fetch"
    /\ \E resp \in TargetResponses :
         LET c == fetch_rss_with_proxy(resp)
             n == Len(proxies_list)
             step == AfterCall(c, pos, n, attempt_idx, src)
         IN
         /\ response' = resp /\ rss_content' = c
         /\ callsLeft' = callsLeft - 1
         /\ flow' = [taken |-> step,
                     swapped |-> {AfterCall(fetch_rss_with_proxy(r), pos, n,
                                            attempt_idx, src) :
                                     r \in OtherFailure(resp)}]
         /\ UNCHANGED <<queried, requests, publishVars, listing, exc>>
         /\ IF step = "next_proxy"
            THEN /\ pos' = pos + 1 /\ fetches' = fetches + 1
                 /\ passed' = Append(passed, proxies_list[pos])
                 /\ UNCHANGED <<pc, src, stage, proxies_list, attempt_idx, last,
                                exhausted, countVars, batch, earlier>>
            ELSE IF step = "next_round"
            THEN /\ pc' = "shuffle" /\ attempt_idx' = attempt_idx + 1
                 /\ fetches' = fetches + 1
                 /\ passed' = Append(passed, proxies_list[pos])
                 /\ UNCHANGED <<src, stage, proxies_list, pos, last, exhausted,
                                countVars, batch, earlier>>
            ELSE IF step = "publish"
            THEN /\ pc' = "publish_get" /\ fetches' = fetches + 1
                 /\ nSuccess' = nSuccess + 1 /\ nPublish' = nPublish + 1
                 /\ published' = c
                 /\ attempt_idx' = 0 /\ pos' = 0 /\ passed' = <<>>
                 /\ UNCHANGED <<src, stage, proxies_list, last, exhausted, batch,
                                earlier>>
            ELSE /\ LeaveSource(proxies_list, fetches + 1)
                 /\ UNCHANGED countVars

\* the GET of update_github_rss_feed: the store's answer, a status that is
\* neither, or an exception of requests.get, which nothing catches
GetOutcomes(st) == {StoreGet(st), [status |-> 503, sha |-> None]}

PublishGet ==
    /\ pc = "publish_get"
    /\ \/ /\ \E ans \in GetOutcomes(store) :
               /\ sha' = ShaFromGet(ans)
               /\ get' = [issued |-> TRUE, met |-> store, status |-> ans.status]
          /\ pc' = "publish_put" /\ exc' = exc
          /\ UNCHANGED <<src, stage, proxies_list, attempt_idx, pos, fetchVars,
                         queried, requests, last, exhausted, countVars, store,
                         put, result,
                         interfered, nPut, roundVars, earlier, listing,
                         flow, callsLeft>>
       \/ /\ Crash("RequestException") /\ UNCHANGED <<queried, requests>>

\* another writer of the store acts between the GET and the PUT
ConcurrentWrite ==
    /\ pc = "publish_put" /\ ~interfered
    /\ interfered' = TRUE
    /\ store' \in {[rev |-> NextRev(store.rev), content |-> <<"other">>], Absent} \ {store}
    /\ UNCHANGED <<pc, src, stage, proxies_list, attempt_idx, pos, fetchVars,
                   queried, requests, last, exhausted, countVars, get, sha, put,
                   result,
                   nPut, roundVars, earlier, listing, flow, callsLeft,
                   exc>>

\* mutant: the return after the publish is missing
MainAfterPublish_NoReturn(i) == NextBlock(i)

\* mutant: the publish is tried again
MainAfterPublish_PublishesAgain(i) == [pc |-> "publish_get", src |-> i]

\* main() after update_github_rss_feed returns (line 376: return)
MainAfterPublish(i) == [pc |-> "done", src |-> i]

\* the PUT of update_github_rss_feed: the store's answer, a server error, or
\* an exception of requests.put, which nothing catches
PublishPut ==
    /\ pc = "publish_put"
    /\ LET data == PutData(rss_content, sha) IN
       \/ /\ \E ans \in {StorePut(store, data), [status |-> 503, store |-> store]} :
               /\ store' = ans.store
               /\ put' = [issued |-> TRUE, data |-> data, met |-> store,
                          status |-> ans.status]
               /\ result' = PublishResult(sha, ans.status)
               /\ nPut' = nPut + 1
          /\ pc' = MainAfterPublish(src).pc /\ src' = MainAfterPublish(src).src
          /\ exc' = exc
          /\ UNCHANGED <<stage, proxies_list, attempt_idx, pos, fetchVars, queried,
                         requests,
                         last, exhausted, countVars, get, sha, interfered,
                         roundVars, earlier, listing, flow, callsLeft>>
       \/ /\ Crash("RequestException") /\ UNCHANGED <<queried, requests>>

Next ==
    \/ QueryFreeproxyWorld
    \/ QueryProxyScrape
    \/ QueryProxyscan
    \/ QueryPubProxy
    \/ QueryGetProxyList
    \/ Shuffle
    \/ Fetch
    \/ PublishGet
    \/ ConcurrentWrite
    \/ PublishPut

Spec == Init /\ [][Next]_vars

\* the interpreter keeps running main(), and every request returns or raises
\* (each carries a timeout: lines 20, 79, 107, 144, 218, 262)
FairSpec == Spec /\ WF_vars(Next)


(* ------------------------------- claims -------------------------------- *)
Terminal == {"done", "failed", "crashed"}

\* C1: in every run success is declared at most once and the Publisher is
\* invoked at most once.
C1_AtMostOnce == nSuccess <= 1 /\ nPublish <= 1

C1_Witness == pc = "done" /\ nSuccess = 1 /\ nPublish = 1 /\ put.issued

\* C2: a run in which no Fetcher call succeeded ends in FAILED with the
\* Publisher never invoked, and FAILED is reached only when every source has
\* been queried and left after an empty batch or after all of its rounds.
C2_AllFailEndsFailed ==
    /\ (pc \in Terminal /\ nSuccess = 0) => (pc = "failed" /\ nPublish = 0)
    /\ pc = "failed" =>
          /\ nSuccess = 0
          /\ exhausted = 1..NumSources
          /\ Len(queried) = NumSources

\* C3: every Fetcher call before the first Success failed; the Publisher is
\* invoked with the content of that Success, and once it happened no Fetcher
\* call is made and no source is queried.
C3_FirstSuccessWins ==
    /\ [](nSuccess = 0 => (~ContentTruthy(rss_content) /\ nPublish = 0))
    /\ [](nSuccess > 0 =>
            /\ FetchOutcome(response) = "Success"
            /\ published = response.body
            /\ nPublish = 1
            /\ put.issued => B64Decode(put.data.content) = response.body)
    /\ [][nSuccess > 0 =>
            /\ fetches' = fetches
            /\ response' = response
            /\ queried' = queried
            /\ published' = published]_vars

C3_Witness ==
    /\ pc = "done" /\ src = 2 /\ fetches = 3 /\ result = "Updated"
    /\ store.content = response.body

\* C4: the sources are queried in the order 1, 2, ..., each at most once, and
\* source i+1 only after source i was left after an empty batch or after all
\* of its rounds, with no Success so far.
C4_SourceOrder ==
    /\ Len(queried) <= NumSources
    /\ \A i \in 1..Len(queried) : queried[i] = i
    /\ \A i \in 2..Len(queried) : (i - 1) \in exhausted
    /\ pc = "query" => nSuccess = 0

C4_Witness == queried = <<1, 2, 3, 4, 5>> /\ pc = "fetch" /\ last.size > 0

\* C5: a source that returned an empty batch is left for the next one with no
\* Fetcher call made for it, and a round is only ever run on a non-empty list.
C5_EmptyBatchAdvances ==
    /\ (last.src # 0 /\ last.size = 0) =>
          /\ last.calls = 0
          /\ \/ pc # "failed" /\ src = last.src + 1
             \/ pc = "failed" /\ last.src = NumSources
    /\ pc \in {"shuffle", "fetch"} => proxies_list # <<>>
    /\ pc = "fetch" => pos \in 1..Len(proxies_list)

C5_Witness == last.src = 3 /\ last.size = 0 /\ src = 4 /\ pc = "query"

\* C6: a source left without a Success had exactly attempts * n Fetcher
\* calls, n the size of its batch; within the rounds the calls made are the
\* full rounds so far plus the proxies passed in this one.
C6_ExactCalls ==
    /\ last.src # 0 => last.calls = Attempts(last.src) * last.size
    /\ pc = "fetch" => fetches = attempt_idx * Len(proxies_list) + pos - 1

C6_Witness == last.src = 2 /\ last.size = MaxBatch /\ last.calls = 2 * MaxBatch

\* C7: for a 2xx response the Fetcher returns content exactly when the body
\* contains the marker, the content is that body, and whatever reaches the
\* Publisher and its PUT contains the marker.
C7_MarkerIsValidity ==
    /\ (response.kind = "http" /\ response.status \in 200..299) =>
          (ContentTruthy(rss_content) <=> Contains(response.body, Marker))
    /\ ContentTruthy(rss_content) =>
          (rss_content = response.body /\ response.status \in 200..299)
    /\ published # NoneContent => Contains(published, Marker)
    /\ put.issued => Contains(B64Decode(put.data.content), Marker)

C7_Witness ==
    /\ response.kind = "http" /\ response.status = 200
    /\ response.body = <<"date>", "<dc:">>
    /\ rss_content = NoneContent /\ nSuccess = 0

\* C8: no provider function raises to main(), whatever the provider answers.
C8_SourcesFailSoftly == ~(pc = "crashed" /\ exc = "IndexError")

\* C9: every record a provider function has put on its list has a non-empty
\* address, a port in 1..65535 and a type among http, socks4, socks5.
C9_RecordsWellFormed ==
    \A i \in 1..Len(proxies_list) :
        /\ proxies_list[i].ip # ""
        /\ PortValue(proxies_list[i].port) \in 1..65535
        /\ proxies_list[i].type \in {"http", "socks4", "socks5"}

\* C10: when the store answered the GET and the PUT: a path absent at both
\* is reported Created, a revision unchanged between them is reported
\* Updated, both with the content stored; a revision changed between them is
\* reported Rejected and the store is as the PUT met it.
C10_PublishOutcome ==
    (put.issued /\ get.status # 503 /\ put.status # 503) =>
        /\ (get.met.rev = None /\ put.met.rev = None) =>
              (result = "Created" /\ store.content = published)
        /\ (get.met.rev # None /\ put.met.rev = get.met.rev) =>
              (result = "Updated" /\ store.content = published)
        /\ (get.met.rev # None /\ put.met.rev # get.met.rev) =>
              (result = "Rejected" /\ store = put.met)

C10_Witness ==
    /\ put.issued /\ interfered /\ get.met.rev = "r1" /\ put.met.rev = "r2"
    /\ result = "Rejected" /\ store.content = <<"other">>


\* C11: a PUT that the store rejected or that failed is reported as a
\* failure, an exception of the GET or the PUT ends the run, and in either
\* case at most one PUT was issued and nothing is fetched, queried or
\* written by the run afterwards.
PublishFailed ==
    \/ put.issued /\ put.status \notin {200, 201}
    \/ pc = "crashed" /\ exc = "RequestException"

C11_PublishFailureEndsRun ==
    /\ [](nPut <= 1)
    /\ []((put.issued /\ put.status \notin {200, 201}) => result = "Rejected")
    /\ [](PublishFailed => (pc \in {"done", "crashed"} /\ nSuccess = 1))
    /\ [][PublishFailed =>
            /\ nPut' = nPut
            /\ fetches' = fetches
            /\ queried' = queried
            /\ store' = store]_vars

C11_Witness ==
    /\ pc = "done" /\ result = "Rejected" /\ put.status = 409 /\ nPut = 1
    /\ src = 1 /\ store.content = <<"other">>


\* C12: no record of a batch returned by any source carries the type
\* "https": every source turns an https label into "http".
C12_NoHttpsRecord ==
    \A i \in 1..Len(proxies_list) : proxies_list[i].type # "https"


\* C15: a round is one pass over a permutation of the batch: the shuffled
\* list holds the records of the batch, each as often as the batch does; the
\* calls of a round are made on the list's elements in order, one call each,
\* while no call has succeeded; and a round that ends without a success has
\* passed every record of the batch exactly as often as the batch holds it.
C15_RoundIsPermutation ==
    /\ pc \in {"shuffle", "fetch"} =>
         /\ batch.src = src
         /\ BagOf(proxies_list) = batch.bag
    /\ pc = "fetch" =>
         /\ pos \in 1..Len(proxies_list)
         /\ passed = SubSeq(proxies_list, 1, pos - 1)
         /\ pos > 1 => ~ContentTruthy(rss_content)
    /\ (pc = "shuffle" /\ passed # <<>>) =>
         /\ BagOf(passed) = batch.bag
         /\ ~ContentTruthy(rss_content)

C15_Witness ==
    /\ pc = "fetch" /\ attempt_idx = 1 /\ Len(proxies_list) = MaxBatch
    /\ pos = MaxBatch /\ Len(passed) = MaxBatch - 1
    /\ passed[1] # proxies_list[MaxBatch]


\* C13 as stated: every proxy passed to the Fetcher under a source is a
\* record of the batch that source's query returned, and no record (by
\* value) is attempted under two different sources.
C13_NoRecordUnderTwoSources ==
    \A i \in 1..Len(passed) :
       /\ passed[i] \in DOMAIN batch.bag
       /\ passed[i] \notin earlier

\* C13, amended: the list of each source starts empty, every proxy passed to
\* the Fetcher under a source is a record of the batch that source's own
\* query returned, and nothing of the list outlives the source; a record
\* that two providers both list is attempted under both.
C13_OwnBatchOnly ==
    /\ (pc = "query" /\ stage = 0) =>
          proxies_list = <<>> /\ passed = <<>> /\ batch = NoBatch
    /\ pc \in {"shuffle", "fetch"} => batch.src = src
    /\ \A i \in 1..Len(passed) : passed[i] \in DOMAIN batch.bag
    /\ batch.src # 0 =>
          \A i \in 1..Len(proxies_list) : proxies_list[i] \in DOMAIN batch.bag

C13_Witness ==
    /\ src = 2 /\ pc = "fetch" /\ last.src = 1 /\ last.size > 0
    /\ passed # <<>> /\ passed[1] \in earlier


\* C14: when every source query and every Fetcher call returns, the run
\* ends: it reaches FAILED or declares success (DONE), and by then it has made
\* at most attempts_i * |batch_i| Fetcher calls, summed over the sources it
\* queried. A run in which a source query raises is outside the assumption.
SourceRaised == pc = "crashed" /\ exc = "IndexError"

C14_Terminates ==
    /\ <>(pc \in Terminal)
    /\ [](pc \in Terminal => (pc = "failed" \/ nSuccess = 1 \/ SourceRaised))
    /\ [](callsLeft >= 0)
    /\ [](pc = "failed" => callsLeft = 0)

C14_Witness ==
    /\ pc = "failed" /\ callsLeft = 0 /\ Len(queried) = NumSources
    /\ last.calls = AttemptsOther * MaxBatch /\ exhausted = 1..NumSources


\* C16: the PUT carries the revision the store held for the path when the
\* GET was made, whenever it held one, and a PUT without a revision is
\* issued only when the path was absent from the store at that time.
C16_RevisionSuppliedWhenPresent ==
    put.issued =>
       /\ get.met.rev # None => put.data.sha = get.met.rev
       /\ put.data.sha = None => get.met = Absent


\* C17: Invalid and NetworkFailure are one outcome for the control flow:
\* after a failed Fetcher call the controller does what it does had the call
\* failed the other way (next proxy, next round or next source), and both
\* kinds return None.
C17_FailureKindsAlike ==
    (response # NoResponse /\ FetchOutcome(response) # "Success") =>
       /\ rss_content = NoneContent
       /\ flow.taken # "none" => flow.swapped = {flow.taken}
       /\ flow.taken # "publish"

C17_Witness ==
    /\ FetchOutcome(response) = "Invalid" /\ response.body = <<"<html>">>
    /\ flow.taken = "next_round" /\ flow.swapped = {"next_round"}
    /\ pc = "shuffle" /\ src = 2


\* C18: in the multi-protocol list source every line "ip:port" of a protocol
\* response that was fetched yields a record of that protocol, whatever
\* malformed lines (no colon, more than one colon) stand before it, and no
\* response or error of one protocol removes a record of another protocol.
WellFormedLines(entries) == {i \in 1..Len(entries) : Len(entries[i]) = 2}

C18_MalformedLineSkipped ==
    /\ listing.kind # "none" =>
          SubSeq(proxies_list, 1, Len(listing.before)) = listing.before
    /\ listing.kind = "ok" =>
          /\ Len(proxies_list) =
                Len(listing.before) + Cardinality(WellFormedLines(listing.entries))
          /\ \A i \in WellFormedLines(listing.entries) :
                \E j \in (Len(listing.before) + 1)..Len(proxies_list) :
                   proxies_list[j] = Rec(Strip(listing.entries[i][1]),
                                         Strip(listing.entries[i][2]),
                                         listing.type)


\* C19: the single-record-per-call source issues exactly NumRequests
\* requests whatever their outcomes, and no request, failed or not, removes a
\* record an earlier request has added: the list only grows until it is
\* returned.
C19_AllRequestsIssued ==
    /\ []((src = NumSources /\ pc = "query" /\ stage > 0) =>
             (requests = stage /\ stage < NumRequests))
    /\ []((src = NumSources /\ pc # "query") => requests = NumRequests)
    /\ [][(src = NumSources /\ pc = "query") =>
             /\ Len(proxies_list) <= Len(proxies_list')
             /\ SubSeq(proxies_list', 1, Len(proxies_list)) = proxies_list
             /\ pc' = "query" => requests' = stage' /\ stage' = stage + 1
             /\ pc' # "query" => stage = NumRequests - 1]_vars

C19_Witness ==
    /\ src = NumSources /\ pc = "shuffle" /\ requests = NumRequests
    /\ Len(proxies_list) = MaxBatch /\ proxies_list[1] # proxies_list[MaxBatch]


====
